---- MODULE Spec2Model ----
(***************************************************************************)
(* Model of mapper.Info (src/mapper/info.go): the column <-> field map of  *)
(* a tagged Go struct, built by NewInfo and used by FieldByColumn,         *)
(* SetField, ColumnByPtr and getValidIndexes.                              *)
(*                                                                         *)
(* A Go value is a record [t |-> dynamic type, d |-> data]; d is a         *)
(* sequence of atoms (strings; an int atom is its decimal numeral):        *)
(*   scalar        <<atom>>                                                *)
(*   slice, OvsSet the elements                                            *)
(*   pointer       <<>> for a nil pointer, <<atom>> for a pointer to atom  *)
(*   map           <<k1, v1, ...>>                                         *)
(*   struct{}      <<>>                                                    *)
(* The nil interface is NilValue, whose type "nil" is the nil reflect.Type.*)
(* Info's doc comment (info.go:10-11) requires the tagged fields to be     *)
(* exported; every tagged field of the record types below is exported.     *)
(***************************************************************************)
EXTENDS Integers, Sequences, FiniteSets, TLC

\* ------------------------------------------------------------- bounds
\* longest slice offered to SetField or held by a record at construction
MaxSliceLen == 1
\* address of the record (the value of reflect.ValueOf(i.obj).Pointer())
ObjAddr == 128
\* uintptr arithmetic is modular; the model's address space
AddrSpace == 256

\* ------------------------------------------------------ Go type system
ZeroUUID == "00000000-0000-0000-0000-000000000000"
NilType == "nil"
NilValue == [t |-> NilType, d |-> <<>>]
NoErr == "nil"

\* reflect.Type.Kind
Kind(t) ==
  CASE t \in {"string", "Enum"} -> "string"
    [] t = "int" -> "int"
    [] t = "bool" -> "bool"
    [] t \in {"[]string", "[]Enum", "[]bool"} -> "slice"
    [] t \in {"*string", "*Enum"} -> "ptr"
    [] t = "map[string]string" -> "map"
    [] t = "interface{}" -> "interface"
    [] t \in {"struct{}", "OvsSet", "reflect.Value"} -> "struct"
    [] OTHER -> "invalid"

\* reflect.Type.Elem is defined for array, chan, map, pointer and slice types
HasElem(t) == Kind(t) \in {"slice", "ptr", "map"}

\* reflect.Type.Elem
Elem(t) ==
  CASE t = "[]string" -> "string"
    [] t = "[]Enum" -> "Enum"
    [] t = "[]bool" -> "bool"
    [] t = "*string" -> "string"
    [] t = "*Enum" -> "Enum"
    [] t = "map[string]string" -> "string"
    [] OTHER -> NilType

\* the underlying type; Enum is declared `type Enum string`
Underlying(t) == IF t = "Enum" THEN "string" ELSE t

\* a defined (named) type
Named(t) == t \in {"string", "Enum", "int", "bool", "OvsSet", "reflect.Value"}

\* reflect.Type.AssignableTo: t.AssignableTo(u), u # nil
AssignableTo(t, u) ==
  \/ t = u
  \/ u = "interface{}"
  \/ Underlying(t) = Underlying(u) /\ (~Named(t) \/ ~Named(u))

\* reflect.Type.ConvertibleTo: src.ConvertibleTo(dst)
ConvertibleTo(src, dst) ==
  \/ dst = "interface{}"
  \/ Underlying(src) = Underlying(dst)
  \/ Kind(dst) = "string" /\ Kind(src) = "int"
  \/ /\ Kind(src) = "ptr" /\ Kind(dst) = "ptr"
     /\ Underlying(Elem(src)) = Underlying(Elem(dst))

\* string(rune(n)) for the int atoms of the model
IntToString(a) == IF a = "97" THEN "a" ELSE "\\x00"

\* reflect.Value.Convert of v (v.t convertible to dst); a value stored in an
\* interface keeps its dynamic type
Convert(v, dst) ==
  IF dst = "interface{}" THEN v
  ELSE IF Kind(dst) = "string" /\ Kind(v.t) = "int"
       THEN [t |-> dst, d |-> <<IntToString(v.d[1])>>]
       ELSE [t |-> dst, d |-> v.d]

\* reflect.Value.IsValid of reflect.ValueOf(v)
IsValid(v) == v.t # NilType

\* ------------------------------------------------ values of the model
RECURSIVE SeqsUpTo(_, _)
\* the sequences over S of length at most n
SeqsUpTo(S, n) ==
  IF n = 0 THEN {<<>>}
  ELSE LET shorter == SeqsUpTo(S, n - 1)
       IN shorter \cup {Append(q, x) : q \in shorter, x \in S}

\* the data a value of static type t can hold
DataOf(t) ==
  CASE t = "string" -> {<<"">>, <<"a">>, <<"zz">>, <<ZeroUUID>>}
    [] t = "Enum" -> {<<"">>, <<"a">>, <<"zz">>}
    [] t = "int" -> {<<"0">>, <<"97">>}
    [] t \in {"[]string", "[]Enum", "OvsSet"} -> SeqsUpTo({"a", "zz"}, MaxSliceLen)
    [] t = "[]bool" -> SeqsUpTo({"true"}, MaxSliceLen)
    [] t = "*string" -> {<<>>, <<"">>, <<"a">>}
    [] t = "*Enum" -> {<<>>, <<"a">>}
    [] t = "map[string]string" -> {<<>>, <<"a", "a">>}
    [] t = "struct{}" -> {<<>>}
    [] OTHER -> {}

ConcreteTypes ==
  {"string", "Enum", "int", "[]string", "[]Enum", "[]bool", "*string", "*Enum",
   "map[string]string", "struct{}", "OvsSet"}

\* the values a field of static type t can hold
ValuesOf(t) ==
  IF t = "interface{}"
  THEN {NilValue, [t |-> "string", d |-> <<"a">>], [t |-> "[]string", d |-> <<"a">>]}
  ELSE {[t |-> t, d |-> d] : d \in DataOf(t)}

\* every value offered to SetField
Offered == UNION {ValuesOf(t) : t \in ConcreteTypes} \cup {NilValue}

\* the zero value of a dynamic type (reflect.Value.IsZero)
IsZero(v) ==
  CASE Kind(v.t) \in {"slice", "ptr", "map", "struct"} -> v.d = <<>>
    [] Kind(v.t) = "string" -> v.d = <<"">>
    [] Kind(v.t) = "int" -> v.d = <<"0">>
    [] OTHER -> TRUE

\* ------------------------------------------- ovsdb package (schema)
NoColumn == [type |-> "none", key |-> "none", arity |-> "none", enum |-> {}]
UUIDColumn == [type |-> "uuid", key |-> "uuid", arity |-> "1", enum |-> {}]

\* the columns of the table schema
Columns ==
  [name  |-> [type |-> "string",  key |-> "string",  arity |-> "1",    enum |-> {}],
   proto |-> [type |-> "enum",    key |-> "string",  arity |-> "1",    enum |-> {"a", "b"}],
   prio  |-> [type |-> "integer", key |-> "integer", arity |-> "1",    enum |-> {}],
   tags  |-> [type |-> "set",     key |-> "string",  arity |-> "0..n", enum |-> {}],
   ports |-> [type |-> "set",     key |-> "uuid",    arity |-> "0..n", enum |-> {}],
   opt   |-> [type |-> "set",     key |-> "string",  arity |-> "0..1", enum |-> {}],
   cfg   |-> [type |-> "map",     key |-> "string",  arity |-> "0..n", enum |-> {}]]

\* the index declarations a table schema may carry
IndexChoices ==
  {<< <<"name">>, <<"name", "proto">>, <<"prio">> >>,
   << <<"tags", "name">>, <<"opt">>, <<"name">>, <<"ports">> >>}

\* ovsdb.TableSchema.Column
Column(t, col) ==
  IF col = "_uuid" THEN UUIDColumn
  ELSE IF col \in DOMAIN t.columns THEN t.columns[col] ELSE NoColumn

\* the native type of an atomic OVSDB type
NativeAtomic(key) == IF key = "integer" THEN "int" ELSE "string"

\* ovsdb.NativeType
NativeType(c) ==
  CASE c.type \in {"string", "uuid", "integer", "enum"} -> NativeAtomic(c.key)
    [] c.type = "set" /\ c.arity = "0..1" -> "*string"
    [] c.type = "set" -> "[]string"
    [] OTHER -> "map[string]string"

\* ovsdb.IsDefaultValue
IsDefaultValue(c, v) ==
  \/ IsZero(v)
  \/ c.type = "uuid" /\ v.d = <<ZeroUUID>>

\* the native form of one wire atom of OVSDB type key
AtomOk(c, v) ==
  /\ Len(v.d) = 1
  /\ IF c.key = "integer" THEN v.t = "int" ELSE v.t = "string"

\* ovsdb.OvsToNative
OvsToNative(c, v) ==
  LET bad(kind) == [err |-> kind, v |-> NilValue]
      ok(x) == [err |-> NoErr, v |-> x]
      outside == \E k \in 1..Len(v.d) : v.d[k] \notin c.enum
  IN CASE c.type = "enum" ->
            IF ~AtomOk(c, v) THEN bad("InvalidValue")
            ELSE IF outside THEN bad("EnumOutOfRange") ELSE ok(v)
       [] c.type \in {"string", "uuid", "integer"} ->
            IF AtomOk(c, v) THEN ok(v) ELSE bad("InvalidValue")
       [] c.type = "set" /\ c.arity = "0..1" ->
            IF AtomOk(c, v) THEN ok([t |-> "*string", d |-> v.d])
            ELSE IF v.t # "OvsSet" THEN bad("InvalidValue")
            ELSE IF Len(v.d) > 1 THEN bad("ArityViolation")
            ELSE ok([t |-> "*string", d |-> v.d])
       [] c.type = "set" ->
            IF AtomOk(c, v) \/ v.t = "OvsSet" THEN ok([t |-> "[]string", d |-> v.d])
            ELSE bad("InvalidValue")
       [] OTHER -> bad("InvalidValue")

\* ------------------------------------------------------ record types
\* a struct field: reflect.StructField's Name, Tag.Get("ovsdb"), Type, Offset
Fld(n, tag, t, off) == [name |-> n, tag |-> tag, type |-> t, offset |-> off]

\* the struct types of the records handed to NewInfo
StructTypes ==
  {<<Fld("UUID", "_uuid", "string", 0), Fld("Name", "name", "string", 16),
     Fld("Proto", "proto", "Enum", 32), Fld("Note", "", "int", 48)>>,
   <<Fld("Tags", "tags", "[]Enum", 0), Fld("Pad", "", "struct{}", 24),
     Fld("Opt", "opt", "*string", 24), Fld("Name", "name", "string", 32)>>,
   <<Fld("Tags", "tags", "int", 0), Fld("Ports", "ports", "interface{}", 8),
     Fld("Name", "name", "string", 24)>>,
   <<Fld("Mark", "tags", "struct{}", 0), Fld("Opt", "opt", "*Enum", 0),
     Fld("Alias", "opt", "*Enum", 8)>>,
   <<Fld("Name", "name", "string", 0), Fld("X", "nosuch", "string", 16)>>,
   <<Fld("Name", "name", "string", 0), Fld("Prio", "prio", "string", 16)>>}

\* what obj is: a pointer to a struct, a struct passed by value, a pointer to
\* a non-struct, or nil
ObjKinds == {"*struct", "struct", "*int", "nil"}

FieldNames(ot) == {ot[j].name : j \in 1..Len(ot)}

\* the records of struct type ot
Records(ot) ==
  {r \in [FieldNames(ot) -> UNION {ValuesOf(ot[j].type) : j \in 1..Len(ot)}] :
     \A j \in 1..Len(ot) : r[ot[j].name] \in ValuesOf(ot[j].type)}

\* ------------------------------------------------------- mapper.Info
ErrColumnNotFound == "column not found in orm info"
ErrElemNotConvertible == "element is not convertible to field element"
ErrNotAssignable == "native value is not assignable or convertible to field"
ErrWrongType == "ErrWrongType"
ErrNoColumnInfo == "field does not have orm column information"
ErrNotInStruct == "field pointer does not correspond to orm struct"
ErrNoSuchColumn == "ErrMapper: Column does not exist in schema"
ErrFieldType == "ErrMapper: Wrong type"

\* the static type of the field called name: FieldByName(name).Type()
FieldType(ot, name) == ot[CHOOSE j \in 1..Len(ot) : ot[j].name = name].type

\* Info.hasColumn
hasColumn(fields, column) == column \in DOMAIN fields

\* FieldByColumn without its check of ok: an unknown column yields no error
FieldByColumnUnchecked(fields, o, column) ==
  IF column \notin DOMAIN fields
  THEN [value |-> NilValue, err |-> NoErr]
  ELSE [value |-> o[fields[column]], err |-> NoErr]

\* Info.FieldByColumn
FieldByColumn(fields, o, column) ==
  IF column \notin DOMAIN fields
  THEN [value |-> NilValue, err |-> ErrColumnNotFound]
  ELSE [value |-> o[fields[column]], err |-> NoErr]

\* Set on the struct's first field instead of the field called name
SetValueFirstField(o, ot, name, v) ==
  [obj |-> [o EXCEPT ![ot[1].name] = v], err |-> NoErr, panic |-> FALSE]

\* reflect.Value.Set: panics unless the value is assignable to the field
SetValue(o, ot, name, v) ==
  IF AssignableTo(v.t, FieldType(ot, name))
  THEN [obj |-> [o EXCEPT ![name] = v], err |-> NoErr, panic |-> FALSE]
  ELSE [obj |-> o, err |-> NoErr, panic |-> TRUE]

\* the loop of SetField that converts a set element by element
ConvertElems(v, ft) ==
  [t |-> ft,
   d |-> [k \in 1..Len(v.d) |-> Convert([t |-> Elem(v.t), d |-> <<v.d[k]>>], Elem(ft)).d[1]]]

\* Info.SetField: the record after the call, the error returned, or a panic
SetField(fields, o, ot, t, column, value) ==
  LET fail(e) == [obj |-> o, err |-> e, panic |-> FALSE]
      crash == [obj |-> o, err |-> NoErr, panic |-> TRUE]
  IN IF column \notin DOMAIN fields THEN fail(ErrColumnNotFound)
     ELSE
     LET fieldName == fields[column]
         ft == FieldType(ot, fieldName)
     IN IF value.t = NilType THEN crash
        ELSE IF AssignableTo(ft, value.t) THEN SetValue(o, ot, fieldName, value)
        ELSE
        LET native ==
              IF Kind(ft) = "ptr"
              THEN IF Kind(value.t) = "ptr" /\ AssignableTo(ft, "reflect.Value")
                   THEN [err |-> NoErr, v |-> [t |-> Elem(value.t), d |-> value.d]]
                   ELSE OvsToNative(Column(t, column), value)
              ELSE [err |-> NoErr, v |-> value]
            v == native.v
        IN IF native.err # NoErr THEN fail(native.err)
           ELSE IF ~IsValid(v) THEN crash
           ELSE IF ConvertibleTo(v.t, ft) THEN SetValue(o, ot, fieldName, Convert(v, ft))
           ELSE IF Kind(ft) = "slice"
                THEN IF ~HasElem(v.t) THEN crash
                     ELSE IF ~ConvertibleTo(Elem(v.t), Elem(ft))
                          THEN fail(ErrElemNotConvertible)
                     ELSE IF Kind(v.t) = "ptr" THEN crash
                     ELSE IF Kind(v.t) = "map" /\ Len(v.d) > 0 THEN crash
                     ELSE IF Kind(v.t) = "map" THEN SetValue(o, ot, fieldName, [t |-> ft, d |-> <<>>])
                     ELSE SetValue(o, ot, fieldName, ConvertElems(v, ft))
                ELSE fail(ErrNotAssignable)

\* a fieldPtr argument: a pointer (its address), or something that is no pointer
FieldPtrs ==
  {[kind |-> "ptr", addr |-> a] :
     a \in {0} \cup {ObjAddr + 4 * k - 8 : k \in 0..14}}
  \cup {[kind |-> "notptr", addr |-> 0]}

RECURSIVE ColumnByPtrLoopSkipping(_, _, _, _)
\* the loop of ColumnByPtr going on to the next field after an unmapped one
ColumnByPtrLoopSkipping(fields, ot, offset, j) ==
  IF j > Len(ot) THEN [column |-> "", err |-> ErrNotInStruct]
  ELSE IF ot[j].offset = offset /\ ot[j].tag \in DOMAIN fields
       THEN [column |-> ot[j].tag, err |-> NoErr]
       ELSE ColumnByPtrLoopSkipping(fields, ot, offset, j + 1)

RECURSIVE ColumnByPtrLoop(_, _, _, _)
\* the loop of ColumnByPtr from field j on
ColumnByPtrLoop(fields, ot, offset, j) ==
  IF j > Len(ot) THEN [column |-> "", err |-> ErrNotInStruct]
  ELSE IF ot[j].offset = offset
       THEN IF ot[j].tag \notin DOMAIN fields
            THEN [column |-> "", err |-> ErrNoColumnInfo]
            ELSE [column |-> ot[j].tag, err |-> NoErr]
       ELSE ColumnByPtrLoop(fields, ot, offset, j + 1)

\* Info.ColumnByPtr
ColumnByPtr(fields, ot, fieldPtr) ==
  IF fieldPtr.kind # "ptr" THEN [column |-> "", err |-> ErrWrongType]
  ELSE ColumnByPtrLoop(fields, ot, (fieldPtr.addr - ObjAddr) % AddrSpace, 1)

RECURSIVE IndexLoopNoDefaultCheck(_, _, _, _, _)
\* the inner loop of getValidIndexes without its IsDefaultValue test
IndexLoopNoDefaultCheck(fields, o, t, idx, k) ==
  IF k > Len(idx) THEN "append"
  ELSE IF ~hasColumn(fields, idx[k]) \/ Column(t, idx[k]) = NoColumn THEN "continue"
  ELSE IF ~IsValid(FieldByColumn(fields, o, idx[k]).value) THEN "continue"
  ELSE IndexLoopNoDefaultCheck(fields, o, t, idx, k + 1)

RECURSIVE IndexLoop(_, _, _, _, _)
\* the inner loop of getValidIndexes over the columns of idx from the k-th on:
\* "append" when it runs to its end, "continue" on continue OUTER
IndexLoop(fields, o, t, idx, k) ==
  IF k > Len(idx) THEN "append"
  ELSE LET col == idx[k]
           columnSchema == Column(t, col)
           got == FieldByColumn(fields, o, col)
       IN IF ~hasColumn(fields, col) THEN "continue"
          ELSE IF columnSchema = NoColumn THEN "continue"
          ELSE IF got.err # NoErr THEN "return"
          ELSE IF ~IsValid(got.value) \/ IsDefaultValue(columnSchema, got.value)
               THEN "continue"
          ELSE IndexLoop(fields, o, t, idx, k + 1)

RECURSIVE ValidIndexesLoop(_, _, _, _, _, _)
\* the outer loop of getValidIndexes from the n-th possible index on
ValidIndexesLoop(fields, o, t, possibleIndexes, n, validIndexes) ==
  IF n > Len(possibleIndexes) THEN [indexes |-> validIndexes, err |-> NoErr]
  ELSE LET idx == possibleIndexes[n]
           step == IndexLoop(fields, o, t, idx, 1)
       IN IF step = "return" THEN [indexes |-> <<>>, err |-> ErrColumnNotFound]
          ELSE ValidIndexesLoop(fields, o, t, possibleIndexes, n + 1,
                                IF step = "append" THEN Append(validIndexes, idx)
                                ELSE validIndexes)

\* the possible indexes with ["_uuid"] appended after the declared ones
PossibleIndexesUuidLast(t) == t.indexes \o << <<"_uuid">> >>

\* the indexes getValidIndexes considers, in its order
PossibleIndexes(t) == << <<"_uuid">> >> \o t.indexes

\* Info.getValidIndexes
getValidIndexes(fields, o, t) ==
  ValidIndexesLoop(fields, o, t, PossibleIndexes(t), 1, <<>>)

\* the type check of NewInfo on one tagged field: TRUE when the field passes
TypeCheck(expType, fieldType) ==
  \/ Kind(expType) = "slice" /\ Kind(Elem(expType)) = "string"
  \/ Kind(expType) = "string" /\ Kind(fieldType) = "string"
  \/ /\ Kind(expType) = "ptr" /\ Kind(Elem(expType)) = "string"
     /\ Kind(fieldType) = "ptr" /\ Kind(Elem(fieldType)) = "string"
  \/ expType = fieldType

NoFields == [c \in {} |-> ""]

RECURSIVE NewInfoLoopColumnAsField(_, _, _, _)
\* the loop of NewInfo storing the column name where the field name belongs
NewInfoLoopColumnAsField(t, ot, j, fields) ==
  IF j > Len(ot) THEN [ok |-> TRUE, fields |-> fields, err |-> NoErr, panic |-> FALSE]
  ELSE IF ot[j].tag = "" THEN NewInfoLoopColumnAsField(t, ot, j + 1, fields)
  ELSE IF Column(t, ot[j].tag) = NoColumn
       THEN [ok |-> FALSE, fields |-> NoFields, err |-> ErrNoSuchColumn, panic |-> FALSE]
  ELSE IF ~TypeCheck(NativeType(Column(t, ot[j].tag)), ot[j].type)
       THEN [ok |-> FALSE, fields |-> NoFields, err |-> ErrFieldType, panic |-> FALSE]
  ELSE NewInfoLoopColumnAsField(t, ot, j + 1,
           [c \in DOMAIN fields \cup {ot[j].tag} |->
              IF c = ot[j].tag THEN ot[j].tag ELSE fields[c]])

RECURSIVE NewInfoLoop(_, _, _, _)
\* the loop of NewInfo over the struct's fields from the j-th on
NewInfoLoop(t, ot, j, fields) ==
  IF j > Len(ot) THEN [ok |-> TRUE, fields |-> fields, err |-> NoErr, panic |-> FALSE]
  ELSE LET field == ot[j]
           colName == field.tag
           column == Column(t, colName)
       IN IF colName = "" THEN NewInfoLoop(t, ot, j + 1, fields)
          ELSE IF column = NoColumn
               THEN [ok |-> FALSE, fields |-> NoFields, err |-> ErrNoSuchColumn, panic |-> FALSE]
          ELSE IF ~TypeCheck(NativeType(column), field.type)
               THEN [ok |-> FALSE, fields |-> NoFields, err |-> ErrFieldType, panic |-> FALSE]
          ELSE NewInfoLoop(t, ot, j + 1,
                   [c \in DOMAIN fields \cup {colName} |->
                      IF c = colName THEN field.name ELSE fields[c]])

\* NewInfo
NewInfo(t, kind, ot) ==
  IF kind = "nil"
  THEN [ok |-> FALSE, fields |-> NoFields, err |-> NoErr, panic |-> TRUE]
  ELSE IF kind # "*struct"
       THEN [ok |-> FALSE, fields |-> NoFields, err |-> ErrWrongType, panic |-> FALSE]
       ELSE NewInfoLoop(t, ot, 1, NoFields)

\* --------------------------------------------------------- the program
VARIABLES
  table,    \* the table schema given to NewInfo
  objKind,  \* what the obj argument of NewInfo is
  objType,  \* the struct type of the record
  obj,      \* the record: field name -> value
  info,     \* the Info NewInfo returned: [ok, fields]
  old,      \* the record before the last call
  res       \* the last call: its arguments and what it returned

vars == <<table, objKind, objType, obj, info, old, res>>

NoRes ==
  [op |-> "none", col |-> "", val |-> NilValue, ptr |-> [kind |-> "notptr", addr |-> 0],
   err |-> NoErr, panic |-> FALSE, value |-> NilValue, column |-> "", indexes |-> <<>>]

\* the column names callers use: the schema's, "_uuid" and one unknown
ColumnNames == DOMAIN Columns \cup {"_uuid", "nosuch"}

Init ==
  /\ table \in {[columns |-> Columns, indexes |-> ix] : ix \in IndexChoices}
  /\ objType \in StructTypes
  /\ objKind \in ObjKinds
  /\ obj \in Records(objType)
  /\ info = [ok |-> FALSE, fields |-> NoFields]
  /\ old = obj
  /\ res = NoRes

\* the caller holds an Info and no call is in progress
Idle == info.ok /\ res.op = "idle"

\* info, err := NewInfo(table, obj)
NewInfoCall ==
  /\ res.op = "none"
  /\ LET r == NewInfo(table, objKind, objType)
     IN /\ info' = [ok |-> r.ok, fields |-> r.fields]
        /\ res' = [NoRes EXCEPT !.op = "NewInfo", !.err = r.err, !.panic = r.panic]
  /\ old' = obj
  /\ UNCHANGED <<table, objKind, objType, obj>>

\* value, err := info.FieldByColumn(column)
FieldByColumnCall ==
  /\ Idle
  /\ \E column \in ColumnNames :
       LET r == FieldByColumn(info.fields, obj, column)
       IN res' = [NoRes EXCEPT !.op = "FieldByColumn", !.col = column,
                               !.value = r.value, !.err = r.err]
  /\ old' = obj
  /\ UNCHANGED <<table, objKind, objType, obj, info>>

\* err := info.SetField(column, value)
SetFieldCall ==
  /\ Idle
  /\ \E column \in ColumnNames, value \in Offered :
       LET r == SetField(info.fields, obj, objType, table, column, value)
       IN /\ obj' = r.obj
          /\ res' = [NoRes EXCEPT !.op = "SetField", !.col = column, !.val = value,
                                  !.err = r.err, !.panic = r.panic]
  /\ old' = obj
  /\ UNCHANGED <<table, objKind, objType, info>>

\* column, err := info.ColumnByPtr(fieldPtr)
ColumnByPtrCall ==
  /\ Idle
  /\ \E fieldPtr \in FieldPtrs :
       LET r == ColumnByPtr(info.fields, objType, fieldPtr)
       IN res' = [NoRes EXCEPT !.op = "ColumnByPtr", !.ptr = fieldPtr,
                               !.column = r.column, !.err = r.err]
  /\ old' = obj
  /\ UNCHANGED <<table, objKind, objType, obj, info>>

\* indexes, err := info.getValidIndexes()
GetValidIndexesCall ==
  /\ Idle
  /\ LET r == getValidIndexes(info.fields, obj, table)
     IN res' = [NoRes EXCEPT !.op = "getValidIndexes", !.indexes = r.indexes,
                             !.err = r.err]
  /\ old' = obj
  /\ UNCHANGED <<table, objKind, objType, obj, info>>

\* the caller has looked at what the last call returned and goes on; a panic
\* ends the program
Return ==
  /\ info.ok
  /\ res.op \notin {"none", "idle"}
  /\ ~res.panic
  /\ res' = [NoRes EXCEPT !.op = "idle"]
  /\ old' = obj
  /\ UNCHANGED <<table, objKind, objType, obj, info>>

Next ==
  \/ NewInfoCall
  \/ Return
  \/ FieldByColumnCall
  \/ SetFieldCall
  \/ ColumnByPtrCall
  \/ GetValidIndexesCall

Spec == Init /\ [][Next]_vars

\* ------------------------------------------------------------- claims
\* the error kinds of the specification's taxonomy
UnknownColumn(e) == e = ErrColumnNotFound
MapperFieldUnknown(e) == e \in {ErrWrongType, ErrNoColumnInfo, ErrNotInStruct}

\* the struct fields tagged with column col, and the one the mapping keeps
TaggedWith(col) == {j \in 1..Len(objType) : objType[j].tag = col}
Tagged(col) == col # "" /\ TaggedWith(col) # {}
MappedField(col) ==
  objType[CHOOSE j \in TaggedWith(col) : \A k \in TaggedWith(col) : k <= j].name

\* ["_uuid"] followed by the declared indexes
Declared == << <<"_uuid">> >> \o table.indexes

\* every column of group G is tagged on the record and holds a non-default value
GroupValid(G) ==
  \A k \in 1..Len(G) :
    /\ Tagged(G[k])
    /\ obj[MappedField(G[k])] # NilValue
    /\ ~IsDefaultValue(Column(table, G[k]), obj[MappedField(G[k])])

\* C1: getValidIndexes returns no error and exactly the groups, among ["_uuid"]
\* and the declared indexes, whose columns are all mapped to a field holding a
\* non-default value: such a group is always returned, any other never.
C1_ValidIndexesExact ==
  res.op = "getValidIndexes" =>
    /\ res.err = NoErr
    /\ res.indexes = SelectSeq(Declared, GroupValid)
    /\ \A n \in 1..Len(Declared) :
         GroupValid(Declared[n]) <=> \E m \in 1..Len(res.indexes) : res.indexes[m] = Declared[n]

\* C1 witness: a call that returns ["name"] and leaves out ["name", "proto"],
\* whose second column holds its default
C1_Witness ==
  /\ res.op = "getValidIndexes"
  /\ table.indexes[2] = <<"name", "proto">>
  /\ Tagged("proto")
  /\ \E m \in 1..Len(res.indexes) : res.indexes[m] = <<"name">>
  /\ \A m \in 1..Len(res.indexes) : res.indexes[m] # <<"name", "proto">>

RECURSIVE IsSubseq(_, _)
\* a is b with some elements left out
IsSubseq(a, b) ==
  IF a = <<>> THEN TRUE
  ELSE IF b = <<>> THEN FALSE
  ELSE IF Head(a) = Head(b) THEN IsSubseq(Tail(a), Tail(b))
  ELSE IsSubseq(a, Tail(b))

\* C2: the list getValidIndexes returns is an order-preserving subsequence of
\* ["_uuid"] followed by the declared indexes; ["_uuid"], when returned, is first.
C2_ValidIndexesOrder ==
  res.op = "getValidIndexes" =>
    /\ IsSubseq(res.indexes, Declared)
    /\ \A m \in 1..Len(res.indexes) : res.indexes[m] = <<"_uuid">> => m = 1

\* C2 witness: ["_uuid"] and two declared indexes are returned, a third is not
C2_Witness ==
  /\ res.op = "getValidIndexes"
  /\ Len(res.indexes) = 3
  /\ res.indexes[1] = <<"_uuid">>
  /\ Len(Declared) = 4

\* the ways the specification lets a field type match a column's native type
AllowedMatch(expType, fieldType) ==
  \/ expType = fieldType
  \/ Kind(expType) = "string" /\ Kind(fieldType) = "string"
  \/ /\ Kind(expType) = "slice" /\ Kind(Elem(expType)) = "string"
     /\ Kind(fieldType) = "slice" /\ Kind(Elem(fieldType)) = "string"
  \/ /\ Kind(expType) = "ptr" /\ Kind(fieldType) = "ptr"
     /\ Kind(Elem(expType)) = Kind(Elem(fieldType))

\* C3: NewInfo succeeds only if every tagged field matches its column's native
\* type in one of the allowed ways; otherwise it fails and returns no Info.
C3_FieldTypesChecked ==
  res.op = "NewInfo" /\ info.ok =>
    \A j \in 1..Len(objType) :
      objType[j].tag # "" =>
        AllowedMatch(NativeType(Column(table, objType[j].tag)), objType[j].type)

\* C4: SetField on a mapped column either assigns or returns an error as a
\* value: it does not crash, and when it returns an error it has not assigned.
C4_ErrorNotCrash ==
  res.op = "SetField" /\ Tagged(res.col) =>
    /\ ~res.panic
    /\ res.err # NoErr => obj = old

\* C5: SetField of a string that is no member of an enum column's enum fails
\* with EnumOutOfRange and leaves the record as it was.
C5_EnumOutOfRange ==
  /\ res.op = "SetField"
  /\ Tagged(res.col)
  /\ Column(table, res.col).type = "enum"
  /\ Kind(res.val.t) = "string"
  /\ res.val.d[1] \notin Column(table, res.col).enum
  => res.err = "EnumOutOfRange" /\ obj = old

\* C6: after a successful SetField(col, v) with v of the field's own type,
\* FieldByColumn(col) returns v; and SetField(col, FieldByColumn(col)) succeeds
\* on every mapped column and leaves the record as it was.
C6_RoundTrip ==
  res.op = "SetField" /\ Tagged(res.col) =>
    /\ res.err = NoErr /\ ~res.panic /\ res.val.t = FieldType(objType, MappedField(res.col))
         => FieldByColumn(info.fields, obj, res.col).value = res.val
    /\ res.val = old[MappedField(res.col)]
         => res.err = NoErr /\ ~res.panic /\ obj = old

\* C7: FieldByColumn returns the value of the field mapped to the column, fails
\* with UnknownColumn and no value for a column no field is tagged with, and
\* leaves the record as it was.
C7_FieldByColumn ==
  res.op = "FieldByColumn" =>
    /\ obj = old
    /\ Tagged(res.col) => res.err = NoErr /\ res.value = obj[MappedField(res.col)]
    /\ ~Tagged(res.col) => UnknownColumn(res.err) /\ res.value = NilValue

\* C7 witness: a column of the table schema that no field is tagged with
C7_Witness ==
  /\ res.op = "FieldByColumn"
  /\ res.col \in DOMAIN table.columns
  /\ ~Tagged(res.col)
  /\ UnknownColumn(res.err)

\* the fields whose address is the pointer's
FieldsAt(ptr) ==
  {j \in 1..Len(objType) : ptr.kind = "ptr" /\ ObjAddr + objType[j].offset = ptr.addr}

\* C8: ColumnByPtr resolves a field identity to at most one column: the tag of
\* the first field at that address when that field is tagged, and otherwise
\* (an untagged field, no field of the record, no pointer) an error and no column.
C8_ColumnByPtr ==
  res.op = "ColumnByPtr" =>
    LET at == FieldsAt(res.ptr)
        first == CHOOSE j \in at : \A k \in at : j <= k
    IN IF at # {} /\ objType[first].tag # ""
       THEN res.err = NoErr /\ res.column = objType[first].tag
       ELSE MapperFieldUnknown(res.err) /\ res.column = ""

\* C8 witness: the pointer is the address of two fields, the first of them
\* untagged, and the call fails
C8_Witness ==
  /\ res.op = "ColumnByPtr"
  /\ Cardinality(FieldsAt(res.ptr)) = 2
  /\ \E j \in FieldsAt(res.ptr) : objType[j].tag # ""
  /\ res.err = ErrNoColumnInfo

\* C9: the Info's mapping is the one built at construction: its columns are
\* exactly the non-empty tags of the record's fields, each a column of the
\* table schema mapped to a field carrying that tag; no untagged field is
\* mapped and no call changes an untagged field. NewInfo fails when a tagged
\* field names a column the table schema does not have.
C9_MappingFixed ==
  /\ info.ok =>
       /\ DOMAIN info.fields = {objType[j].tag : j \in 1..Len(objType)} \ {""}
       /\ \A c \in DOMAIN info.fields :
            /\ c = "_uuid" \/ c \in DOMAIN table.columns
            /\ \E j \in 1..Len(objType) :
                 objType[j].tag = c /\ objType[j].name = info.fields[c]
       /\ \A j \in 1..Len(objType) : objType[j].tag = "" => obj[objType[j].name] = old[objType[j].name]
  /\ (\E j \in 1..Len(objType) :
        objType[j].tag \notin {"", "_uuid"} \cup DOMAIN table.columns)
       /\ res.op # "none"
       => ~info.ok /\ (objKind = "*struct" => res.err # NoErr)

\* C9 witness: SetField has changed the record of a struct with an untagged field
C9_Witness ==
  /\ info.ok
  /\ res.op = "SetField"
  /\ obj # old
  /\ \E j \in 1..Len(objType) : objType[j].tag = ""

\* C10: SetField changes at most the field mapped to the column: nothing when
\* it returns an error, and no other field when it succeeds.
C10_SetFieldFrame ==
  res.op = "SetField" =>
    /\ res.err # NoErr => obj = old
    /\ \A f \in DOMAIN obj :
         ~(Tagged(res.col) /\ f = MappedField(res.col)) => obj[f] = old[f]

\* C10 witness: a failed wire-to-native conversion on a record with other
\* non-default fields
C10_Witness ==
  /\ res.op = "SetField"
  /\ res.err = "InvalidValue"
  /\ \E f \in DOMAIN obj : ~IsZero(obj[f])

====
